---- MODULE Spec2Model ----
\* Lifecycle controller of python-elasticsearch-runner (elasticsearch_runner/runner.py):
\* ElasticsearchRunner.run / stop / is_running against the filesystem and the
\* operating-system processes it launches, and the log scanner parse_es_log_header.
EXTENDS Integers, Sequences, FiniteSets, TLC

\* ---------------------------------------------------------------- bounds

\* Number of subprocess launches (Popen calls) a behaviour may contain; the
\* n-th launched process has PID n (PIDs are not reused).
MaxLaunch == 2

\* Longest log stream given to parse_es_log_header, in lines.
MaxLines == 3
\* Largest line ceiling (limit) given to parse_es_log_header.
MaxLimit == 4

\* Cap of the per-version count of archive extractions.
MaxExtract == 2

\* Largest timeout given to wait_for_green, and the last reading of clock() at
\* which a wait_for_green call begins.
MaxTimeout == 1
MaxClock == 3

\* ---------------------------------------------------------------- values

\* Python's None; an optional value x is <<>> (None) or <<x>>.
None == <<>>
Some(x) == <<x>>

\* The cluster names the generator can return.
Names == {"es_a", "es_b"}
Pids == 1..MaxLaunch

\* Port recorded by run() and default of the log scanner.
DefaultPort == 9200

VARIABLES
  es_state,    \* self.es_state: None or Some(ElasticsearchState)
  es_config,   \* self.es_config: None or Some(config document)
  pc,          \* position of the controller: "idle" or inside run()/stop()
  frame,       \* locals of the call in progress
  dirs,        \* directories that exist on disk
  files,       \* regular files on disk (config file, log file): path -> content
  pid_files,   \* PID files on disk: path -> None or Some(pid)
  alive,       \* PIDs of live operating-system processes
  procs,       \* live launched servers: pid -> [pid_path, wrote]
  launches,    \* number of Popen calls so far
  last,        \* the last completed call and what it did
  log_stream,  \* parse_es_log_header: lines of the log reader
  log_pos,     \* parse_es_log_header: lines consumed by readline()
  scan,        \* parse_es_log_header: locals (line, server_pid, es_port, count, limit, pc)
  command,     \* __main__.main: the command argument of the invocation in progress
  es_homes,    \* install(): the install root on disk, per version
  install_call,\* install(): the last completed call and what it did
  wfg,         \* wait_for_green: locals (end_time, health_data) and position
  clock,       \* wait_for_green: the reading of clock()
  endpoint,    \* wait_for_green: what answers at http://localhost:9200
  conf         \* configuration: a config document, its serialized text, the parse

ctl_vars == <<es_state, es_config, pc, frame, last>>
os_vars == <<dirs, files, pid_files, alive, procs, launches>>
log_vars == <<log_stream, log_pos, scan>>
inst_vars == <<es_homes, install_call>>
green_vars == <<wfg, clock, endpoint>>
\* What the log scanner leaves alone besides the controller and the disk.
tool_vars == <<command, es_homes, install_call, wfg, clock, endpoint, conf>>
\* What run(), stop() and is_running() leave alone.
side_vars == <<log_stream, log_pos, scan, command, es_homes, install_call, wfg,
               clock, endpoint, conf>>
vars == <<es_state, es_config, pc, frame, dirs, files, pid_files, alive, procs,
          launches, last, log_stream, log_pos, scan, command, es_homes,
          install_call, wfg, clock, endpoint, conf>>

\* ---------------------------------------------------------------- paths

\* configuration.generate_cluster_name(): the values one call may return.
generate_cluster_name == Names

\* run(): cluster_path = join(install_path, "%s-%s" % (version, cluster_name)).
RunClusterPath(cluster_name) ==
  [base |-> "install_path", versioned |-> TRUE, cluster |-> cluster_name]

\* __pid_from_file(): cluster_path = generate_cluster_name(), a path relative to
\* the working directory, without install_path and without the version prefix.
LookupClusterPath(cluster_name) ==
  [base |-> "cwd", versioned |-> FALSE, cluster |-> cluster_name]

ClusterPaths ==
  {RunClusterPath(n) : n \in Names} \cup {LookupClusterPath(n) : n \in Names}

\* __get_pid_file(cluster_path) = join(cluster_path, ".pid").
Get_pid_file(cluster_path) == [dir |-> cluster_path, file |-> ".pid"]

PidPaths == {Get_pid_file(cp) : cp \in ClusterPaths}

SubDir(cluster_path, sub) == [dir |-> cluster_path, sub |-> sub]
DataDir(n) == SubDir(RunClusterPath(n), "data")
ConfigDir(n) == SubDir(RunClusterPath(n), "config")
LogDir(n) == SubDir(RunClusterPath(n), "log")
ConfigFn(n) == [dir |-> ConfigDir(n), file |-> "elasticsearch.yml"]
LogFn(n) == [dir |-> LogDir(n), file |-> "cluster.log"]

FilePaths == {ConfigFn(n) : n \in Names} \cup {LogFn(n) : n \in Names}

\* configuration.generate_config(cluster_name, data_path=None, log_path=None):
\* the document has a path entry only for the paths that are given (the key
\* allow-origin is the field allow_origin).
generate_config(cluster_name, data_path, log_path) ==
  LET http == [cors |-> [enabled |-> TRUE, allow_origin |-> "*"]]
      cluster == [name |-> cluster_name]
  IN  IF data_path = None /\ log_path = None
      THEN [http |-> http, cluster |-> cluster]
      ELSE [http |-> http, cluster |-> cluster,
            path |-> IF log_path = None THEN [data |-> data_path[1]]
                     ELSE IF data_path = None THEN [log |-> log_path[1]]
                     ELSE [data |-> data_path[1], log |-> log_path[1]]]

\* ---------------------------------------------------------------- YAML

\* A scalar of a document, with the type it has in Python.
Str(s) == [tag |-> "str", text |-> s]
Bool(b) == [tag |-> "bool", text |-> IF b THEN "true" ELSE "false"]

\* A config document as a mapping from key paths to scalars.
Represent(config) ==
  LET fixed == {<<"cluster", "name">>, <<"http", "cors", "allow-origin">>,
                <<"http", "cors", "enabled">>}
      paths == IF "path" \in DOMAIN config
               THEN {<<"path", k>> : k \in DOMAIN config.path} ELSE {}
  IN  [kp \in fixed \cup paths |->
         IF kp = <<"cluster", "name">> THEN Str(config.cluster.name)
         ELSE IF kp = <<"http", "cors", "allow-origin">>
              THEN Str(config.http.cors.allow_origin)
         ELSE IF kp = <<"http", "cors", "enabled">>
              THEN Bool(config.http.cors.enabled)
         ELSE Str(config.path[kp[2]])]

\* The keys of a config document, nested, in the order yaml.dump writes them
\* (sorted at every level).
KeyOrder ==
  << <<"cluster">>, <<"cluster", "name">>,
     <<"http">>, <<"http", "cors">>, <<"http", "cors", "allow-origin">>,
     <<"http", "cors", "enabled">>,
     <<"path">>, <<"path", "data">>, <<"path", "log">> >>

\* Plain scalars that YAML reads as something other than a string.
BoolWords == {"true", "false"}
IntWords == {"123"}
NullWords == {"null"}
\* Strings that cannot be written plain because they start with an indicator.
IndicatorWords == {"*"}

\* Mutant of Resolve: every plain scalar is read as a string.
Resolve_AllStr(text) == "str"

\* yaml.load: the type of a plain (unquoted) scalar.
Resolve(text) ==
  IF text \in BoolWords THEN "bool"
  ELSE IF text \in IntWords THEN "int"
  ELSE IF text \in NullWords THEN "null"
  ELSE "str"

\* yaml.dump: a scalar is written plain when it reads back with its own type,
\* in single quotes otherwise.
Style(node) ==
  [quoted |-> (Resolve(node.text) # node.tag \/ node.text \in IndicatorWords),
   text |-> node.text]

IsPrefix(p, q) == Len(p) <= Len(q) /\ SubSeq(q, 1, Len(p)) = p

\* serialize_config(stream, config): the YAML text, one line per key, indented
\* by nesting depth; a key that holds a mapping has no value on its line.
RECURSIVE EmitFrom(_, _)
EmitFrom(doc, i) ==
  IF i > Len(KeyOrder) THEN <<>>
  ELSE LET kp == KeyOrder[i]
           line == [indent |-> Len(kp) - 1, key |-> kp[Len(kp)],
                    value |-> IF kp \in DOMAIN doc THEN Some(Style(doc[kp])) ELSE None]
       IN  IF \E leaf \in DOMAIN doc : IsPrefix(kp, leaf)
           THEN <<line>> \o EmitFrom(doc, i + 1)
           ELSE EmitFrom(doc, i + 1)

serialize_config(config) == EmitFrom(Represent(config), 1)

\* yaml.load: the key path of line i: the key of the line under the keys of
\* the nearest line above it that is indented one level less.
RECURSIVE KeyPathAt(_, _)
KeyPathAt(lines, i) ==
  IF lines[i].indent = 0 THEN <<lines[i].key>>
  ELSE LET above == {j \in 1..(i - 1) : lines[j].indent = lines[i].indent - 1}
           parent == CHOOSE j \in above : \A k \in above : k <= j
       IN  Append(KeyPathAt(lines, parent), lines[i].key)

\* yaml.load(stream): the document the text denotes.
Load(lines) ==
  LET leaves == {i \in 1..Len(lines) : lines[i].value # None}
      at(kp) == CHOOSE i \in leaves : KeyPathAt(lines, i) = kp
      scalar(v) == IF v.quoted THEN Str(v.text)
                   ELSE [tag |-> Resolve(v.text), text |-> v.text]
  IN  [kp \in {KeyPathAt(lines, i) : i \in leaves} |-> scalar(lines[at(kp)].value[1])]

\* ---------------------------------------------------------------- queries

\* fetch_pid_from_pid_file(pid_path): the integer in the file, None if it cannot be read.
fetch_pid_from_pid_file(pid_path) ==
  IF pid_path \in DOMAIN pid_files THEN pid_files[pid_path] ELSE None

\* process_exists(pid): os.kill(pid, 0) succeeds.
process_exists(pid) == pid \in alive

\* Mutant of Pid_from_file: the lookup reads the PID file of run()'s cluster path.
Pid_from_file_RunPath(n) ==
  fetch_pid_from_pid_file(
    Get_pid_file([base |-> "install_path", versioned |-> TRUE, cluster |-> n]))

\* __pid_from_file(), with n the name generate_cluster_name() returned.
Pid_from_file(n) == fetch_pid_from_pid_file(Get_pid_file(LookupClusterPath(n)))

\* __es_pid().
Es_pid(n) ==
  IF es_state # None /\ es_state[1].server_pid # None
  THEN es_state[1].server_pid
  ELSE Pid_from_file(n)

\* is_running(), with n the name generate_cluster_name() returned inside it.
Is_running(n) == Es_pid(n) # None /\ process_exists(Es_pid(n)[1])

\* ---------------------------------------------------------------- state

\* Mutant of ElasticsearchState: the discovered PID is dropped and the port unset.
ElasticsearchState_NoPort(server_pid, config_fn) ==
  [wrapper_pid |-> None, server_pid |-> server_pid, port |-> 0,
   config_fn |-> config_fn]

\* ElasticsearchState(wrapper_pid=None, server_pid, port=9200, config_fn).
ElasticsearchState(server_pid, config_fn) ==
  [wrapper_pid |-> None, server_pid |-> server_pid, port |-> DefaultPort,
   config_fn |-> config_fn]

\* Locals of run()/stop() that live across their blocking points.
NoFrame == [name |-> "es_a", pid |-> None, delete_transient |-> FALSE]

\* What the last completed call did (op = "none" right after construction):
\*   op, ret, raised    the call, and whether it returned or raised
\*   after_run          the call before it was a run() that returned
\*   was_running        is_running() held when the call was entered
\*   pre_state          es_state when the call was entered
\*   launched, found    run(): Popen was called; the PID read from the PID file
\*   signalled, deleted stop(): terminate() was sent; the deletion code ran
\* and what the calls so far did on this controller:
\*   ran                run() has been called
\*   stopped            stop() has returned and run() was not called since
\*   recorded           a run() has assigned es_state since the last stop() returned
\*   discovered         ... and one of them with a PID read from the PID file
NoCall ==
  [op |-> "none", after_run |-> FALSE, ret |-> FALSE, raised |-> FALSE,
   launched |-> FALSE, signalled |-> FALSE, deleted |-> FALSE,
   was_running |-> FALSE, delete_transient |-> FALSE, pre_state |-> None,
   found |-> None, ran |-> FALSE, stopped |-> FALSE, recorded |-> FALSE,
   discovered |-> FALSE]

Call(op) ==
  [NoCall EXCEPT !.op = op, !.after_run = (last.op = "run" /\ last.ret),
                 !.was_running = (\E n \in generate_cluster_name : Is_running(n)),
                 !.pre_state = es_state,
                 !.ran = last.ran, !.stopped = last.stopped,
                 !.recorded = last.recorded, !.discovered = last.discovered]

\* A run() call that ended: by the no-op return, by an error, or after assigning
\* es_state with the PID `found` in the PID file.
RunEnded == [Call("run") EXCEPT !.ran = TRUE, !.stopped = FALSE]
RunRecorded(launched, found) ==
  [RunEnded EXCEPT !.ret = TRUE, !.launched = launched, !.found = found,
                   !.recorded = TRUE,
                   !.discovered = (last.discovered \/ found # None)]

\* A stop() call that returned.
StopReturned(delete_transient) ==
  [Call("stop") EXCEPT !.ret = TRUE, !.delete_transient = delete_transient,
                       !.stopped = TRUE, !.recorded = FALSE, !.discovered = FALSE]

NoProc == [pid_path |-> Get_pid_file(RunClusterPath("es_a")), wrote |-> FALSE]

NoScan == [pc |-> "off", line |-> <<>>, server_pid |-> None, es_port |-> DefaultPort,
           count |-> 0, limit |-> 0, warned |-> FALSE]

\* ---------------------------------------------------------------- install()

\* The versions a controller may be constructed with: the keys of ES_URLS.
Versions == {"1.7.2", "2.0.0", "6.4.3"}
ES_DEFAULT_VERSION == "6.4.3"

\* The install root on disk for one version: the downloaded archive, the folder
\* elasticsearch-<version> (es_home), its config/elasticsearch.yml, its
\* modules/x-pack* folders, and how often the archive was extracted.
NoHome ==
  [archive |-> FALSE, home |-> FALSE, config |-> "absent", xpack |-> FALSE,
   extracts |-> 0]

\* What the last completed install() did (op = "none" before the first call):
\*   version, ret, raised   the controller's version; whether it returned or raised
\*   again                  the install() call before it was for the same version
\*                          and returned
\*   extracted, copied      extractall() ran; copyfile() of the baseline config ran
\*   replaced               the config file content that copyfile() overwrote
\*   parity                 parity of the number of install() calls so far
NoInstall ==
  [op |-> "none", version |-> ES_DEFAULT_VERSION, ret |-> FALSE, raised |-> FALSE,
   again |-> FALSE, extracted |-> FALSE, copied |-> FALSE, replaced |-> "absent",
   parity |-> FALSE]

InstallCall(v) ==
  [NoInstall EXCEPT !.op = "install", !.version = v,
                    !.again = (install_call.op = "install" /\ install_call.ret
                               /\ install_call.version = v),
                    !.parity = ~install_call.parity]

\* The archives that carry modules/x-pack* folders.
ShipsXPack(v) == v = ES_DEFAULT_VERSION

\* Mutant of NeedsExtract: install() without its os.path.exists(es_home) test.
NeedsExtract_Always(v) == TRUE

\* install(), line 288: not os.path.exists(es_home).
NeedsExtract(v) == ~es_homes[v].home

\* install(), lines 285-290: download_file() leaves the archive on disk (it is
\* fetched only if it is not there); the archive is extracted if es_home is missing.
Extracted(v) ==
  IF NeedsExtract(v)
  THEN [es_homes[v] EXCEPT !.archive = TRUE, !.home = TRUE, !.config = "shipped",
                           !.xpack = ShipsXPack(v), !.extracts = @ + 1]
  ELSE [es_homes[v] EXCEPT !.archive = TRUE]

\* install(), lines 293-306: the baseline configuration is copied over
\* config/elasticsearch.yml and every modules/x-pack* folder is removed.
Overlaid(home) == [home EXCEPT !.config = "embedded", !.xpack = FALSE]

\* install(), lines 267-308, a call that returns: what it does to the install root.
InstallReturns(v) ==
  /\ NeedsExtract(v) => es_homes[v].extracts < MaxExtract
  /\ es_homes' = [es_homes EXCEPT ![v] = Overlaid(Extracted(v))]
  /\ install_call' = [InstallCall(v) EXCEPT
                        !.ret = TRUE, !.extracted = NeedsExtract(v),
                        !.copied = TRUE, !.replaced = Extracted(v).config]

\* install(), line 285: the archive is not on disk and cannot be fetched: the
\* error of requests.get() propagates and nothing is installed.
InstallRaises(v) ==
  /\ ~es_homes[v].archive
  /\ install_call' = [InstallCall(v) EXCEPT !.raised = TRUE]
  /\ UNCHANGED es_homes

\* install() on a controller of some version returns.
Install ==
  /\ \E v \in Versions : InstallReturns(v)
  /\ UNCHANGED ctl_vars
  /\ UNCHANGED os_vars
  /\ UNCHANGED log_vars
  /\ UNCHANGED <<command, wfg, clock, endpoint, conf>>

\* install() on a controller of some version raises.
InstallDownloadFails ==
  /\ \E v \in Versions : InstallRaises(v)
  /\ UNCHANGED ctl_vars
  /\ UNCHANGED os_vars
  /\ UNCHANGED log_vars
  /\ UNCHANGED <<command, wfg, clock, endpoint, conf>>

\* Somebody edits config/elasticsearch.yml of an installed tree.
ConfigEdited ==
  /\ \E v \in Versions :
       /\ es_homes[v].home
       /\ es_homes[v].config = "embedded"
       /\ es_homes' = [es_homes EXCEPT ![v].config = "edited"]
  /\ UNCHANGED install_call
  /\ UNCHANGED ctl_vars
  /\ UNCHANGED os_vars
  /\ UNCHANGED log_vars
  /\ UNCHANGED <<command, wfg, clock, endpoint, conf>>

NextInstall == Install \/ InstallDownloadFails \/ ConfigEdited

\* Locals of wait_for_green (pc = "off": no call in progress):
\*   timeout, end_time   the argument; clock() + timeout at line 516
\*   status              health_data["status"] of the last response ("none": no response yet)
\*   started             es_state was populated when the call was entered
\*   warned, errored     the "not started" warning; the timeout error was logged
\*   raised              the call ended by an exception of requests.get()
NoWait ==
  [pc |-> "off", timeout |-> 0, end_time |-> 0, status |-> "none",
   started |-> FALSE, warned |-> FALSE, errored |-> FALSE, raised |-> FALSE]

\* A config document in hand (pc = "off": none): the arguments of
\* generate_config, the document, its serialized text, and the text parsed back.
NoConf ==
  [pc |-> "off", cluster_name |-> "ba", data_path |-> None, log_path |-> None,
   config |-> None, text |-> <<>>, parsed |-> <<>>]

\* __init__(): the controller right after construction, on a clean install root.
InitCtl ==
  /\ es_state = None
  /\ es_config = None
  /\ pc = "idle"
  /\ frame = NoFrame
  /\ last = NoCall

InitOs ==
  /\ dirs = {}
  /\ files = [f \in FilePaths |-> "absent"]
  /\ pid_files = [p \in PidPaths |-> None]
  /\ alive = {}
  /\ procs = [p \in Pids |-> NoProc]
  /\ launches = 0

InitLogOff ==
  /\ log_stream = <<>>
  /\ log_pos = 0
  /\ scan = NoScan

\* No command-line invocation, nothing installed, no wait_for_green in progress,
\* no config document in hand.
InitTools ==
  /\ command = "none"
  /\ es_homes = [v \in Versions |-> NoHome]
  /\ install_call = NoInstall
  /\ wfg = NoWait
  /\ clock = 0
  /\ endpoint = "down"
  /\ conf = NoConf

Init == InitCtl /\ InitOs /\ InitLogOff /\ InitTools

\* ---------------------------------------------------------------- run()

\* Mutant of AlreadyRunning: run() without its already-running check.
AlreadyRunning_Never(n) == FALSE

\* run(), line 317: the already-running check.
AlreadyRunning(n) == Is_running(n)

\* run(), lines 339-346: the directories mkdir(parents=True, exist_ok=True) makes.
RunDirs(n) == {RunClusterPath(n), LogDir(n), DataDir(n), ConfigDir(n)}

\* run(), line 366: the PID file read before the launch decision.
WarmPid(n) == fetch_pid_from_pid_file(Get_pid_file(RunClusterPath(n)))

\* run(), lines 317-319: already running, warn and return.
RunNoop ==
  /\ pc = "idle"
  /\ \E n0 \in generate_cluster_name :
       /\ AlreadyRunning(n0)
       /\ last' = [RunEnded EXCEPT !.ret = TRUE]
  /\ UNCHANGED <<es_state, es_config, pc, frame>>
  /\ UNCHANGED os_vars
  /\ UNCHANGED side_vars

\* run(), lines 332-346: the first directory that has to be created cannot be
\* (an OSError other than EEXIST): es_config is already assigned, the error
\* propagates and nothing is on disk that was not there before.
RunMkdirFails ==
  /\ pc = "idle"
  /\ \E n0 \in generate_cluster_name : ~AlreadyRunning(n0)
  /\ \E n \in generate_cluster_name :
       /\ ~(RunDirs(n) \subseteq dirs)
       /\ es_config' = Some(generate_config(n, Some(DataDir(n)), Some(LogDir(n))))
       /\ last' = [RunEnded EXCEPT !.raised = TRUE]
  /\ UNCHANGED <<es_state, pc, frame>>
  /\ UNCHANGED os_vars
  /\ UNCHANGED side_vars

\* run(), lines 321-366 and 387-393 when the PID file of the new cluster path
\* already holds a PID: no launch, the PID is recorded as it is.
RunWarm ==
  /\ pc = "idle"
  /\ \E n0 \in generate_cluster_name : ~AlreadyRunning(n0)
  /\ \E n \in generate_cluster_name :
       /\ WarmPid(n) # None
       /\ es_config' = Some(generate_config(n, Some(DataDir(n)), Some(LogDir(n))))
       /\ dirs' = dirs \cup RunDirs(n)
       /\ files' = [files EXCEPT ![ConfigFn(n)] = "written"]
       /\ es_state' = Some(ElasticsearchState(WarmPid(n), ConfigFn(n)))
       /\ last' = RunRecorded(FALSE, WarmPid(n))
  /\ UNCHANGED <<pc, frame>>
  /\ UNCHANGED <<pid_files, alive, procs, launches>>
  /\ UNCHANGED side_vars

\* run(), lines 321-383: no PID in the PID file: the log file is created empty and
\* the server is started detached with -p pid_path; run() then sleeps.
RunLaunch ==
  /\ pc = "idle"
  /\ launches < MaxLaunch
  /\ \E n0 \in generate_cluster_name : ~AlreadyRunning(n0)
  /\ \E n \in generate_cluster_name :
       /\ WarmPid(n) = None
       /\ es_config' = Some(generate_config(n, Some(DataDir(n)), Some(LogDir(n))))
       /\ dirs' = dirs \cup RunDirs(n)
       /\ files' = [files EXCEPT ![ConfigFn(n)] = "written", ![LogFn(n)] = "empty"]
       /\ launches' = launches + 1
       /\ alive' = alive \cup {launches + 1}
       /\ procs' = [procs EXCEPT ![launches + 1] =
                      [pid_path |-> Get_pid_file(RunClusterPath(n)), wrote |-> FALSE]]
       /\ frame' = [NoFrame EXCEPT !.name = n]
       /\ pc' = "run_sleep"
  /\ UNCHANGED <<es_state, last, pid_files>>
  /\ UNCHANGED side_vars

\* run(), lines 384-393: after the settling sleep the PID file is read again and
\* es_state is recorded, with whatever PID was found.
RunReturn ==
  /\ pc = "run_sleep"
  /\ es_state' = Some(ElasticsearchState(WarmPid(frame.name), ConfigFn(frame.name)))
  /\ last' = RunRecorded(TRUE, WarmPid(frame.name))
  /\ pc' = "idle"
  /\ frame' = NoFrame
  /\ UNCHANGED es_config
  /\ UNCHANGED os_vars
  /\ UNCHANGED side_vars

\* ---------------------------------------------------------------- stop()

\* rmtree(path): the directory and everything below it are removed.
Rmtree(ds, path) == ds \ {path}
RmtreeFiles(fs, path) == [f \in DOMAIN fs |-> IF f.dir = path THEN "absent" ELSE fs[f]]

\* stop(), lines 444-462: the transient deletion, statement by statement. The
\* result is the disk afterwards and whether a statement raised: es_config or
\* es_state is None (TypeError, AttributeError), or rmtree() of a directory
\* that does not exist (FileNotFoundError).
DeleteTransient ==
  IF es_config = None
  THEN [raised |-> TRUE, dirs |-> dirs, files |-> files]
  ELSE
    LET cfg == es_config[1]
        hasPath == "path" \in DOMAIN cfg
        hasLog == hasPath /\ "log" \in DOMAIN cfg.path
        hasData == hasPath /\ "data" \in DOMAIN cfg.path
        logGone == hasLog /\ cfg.path.log \notin dirs
        dirs1 == IF hasLog /\ ~logGone THEN Rmtree(dirs, cfg.path.log) ELSE dirs
        files1 == IF hasLog /\ ~logGone THEN RmtreeFiles(files, cfg.path.log) ELSE files
        dataGone == hasData /\ cfg.path.data \notin dirs1
        dirs2 == IF hasData /\ ~dataGone THEN Rmtree(dirs1, cfg.path.data) ELSE dirs1
        files2 == IF hasData /\ ~dataGone THEN RmtreeFiles(files1, cfg.path.data) ELSE files1
    IN  IF logGone THEN [raised |-> TRUE, dirs |-> dirs, files |-> files]
        ELSE IF dataGone \/ es_state = None
        THEN [raised |-> TRUE, dirs |-> dirs2, files |-> files2]
        ELSE [raised |-> FALSE, dirs |-> dirs2,
              files |-> [files2 EXCEPT ![es_state[1].config_fn] = "absent"]]

\* Mutant of ClearedState: stop() that leaves es_state as it is.
ClearedState_Kept == es_state

\* stop(), lines 464-465 and 468-469: in-memory state is cleared.
ClearedState == None
ClearedConfig == None

\* stop(), lines 431-432: is_running() holds; the PID to terminate is looked up.
StopBegin ==
  /\ pc = "idle"
  /\ \E n0 \in generate_cluster_name, n1 \in generate_cluster_name, dt \in BOOLEAN :
       /\ Is_running(n0)
       /\ frame' = [NoFrame EXCEPT !.pid = Es_pid(n1), !.delete_transient = dt]
  /\ pc' = "stop_signal"
  /\ UNCHANGED <<es_state, es_config, last>>
  /\ UNCHANGED os_vars
  /\ UNCHANGED side_vars

\* stop(), lines 466-471: not running: warn, clear in-memory state, return.
StopNotRunning ==
  /\ pc = "idle"
  /\ \E n0 \in generate_cluster_name, dt \in BOOLEAN :
       /\ ~Is_running(n0)
       /\ last' = StopReturned(dt)
  /\ es_state' = ClearedState
  /\ es_config' = ClearedConfig
  /\ UNCHANGED <<pc, frame>>
  /\ UNCHANGED os_vars
  /\ UNCHANGED side_vars

\* stop(), lines 434-435: Process(pid).terminate() on a live process.
StopSignal ==
  /\ pc = "stop_signal"
  /\ frame.pid # None
  /\ frame.pid[1] \in alive
  /\ pc' = "stop_wait"
  /\ UNCHANGED <<es_state, es_config, frame, last>>
  /\ UNCHANGED os_vars
  /\ UNCHANGED side_vars

\* stop(), lines 434-435: the process is gone by now: psutil raises NoSuchProcess
\* and stop() is left with in-memory state as it was.
StopNoSuchProcess ==
  /\ pc = "stop_signal"
  /\ frame.pid # None
  /\ frame.pid[1] \notin alive
  /\ last' = [Call("stop") EXCEPT !.raised = TRUE, !.was_running = TRUE,
                                  !.delete_transient = frame.delete_transient]
  /\ pc' = "idle"
  /\ frame' = NoFrame
  /\ UNCHANGED <<es_state, es_config>>
  /\ UNCHANGED os_vars
  /\ UNCHANGED side_vars

\* Mutant of WaitReturns: wait() that does not wait.
WaitReturns_AtOnce(pid) == TRUE

\* stop(), line 436: Process.wait() returns once the process has exited.
WaitReturns(pid) == ~process_exists(pid)

\* stop(), lines 436-465: wait() returns once the process has exited; then the
\* transient files are deleted (delete_transient) and in-memory state is cleared.
StopReturn ==
  /\ pc = "stop_wait"
  /\ WaitReturns(frame.pid[1])
  /\ LET del == DeleteTransient
         raise == [Call("stop") EXCEPT !.raised = TRUE, !.was_running = TRUE,
                                       !.signalled = TRUE, !.delete_transient = TRUE]
         return == [StopReturned(frame.delete_transient) EXCEPT
                      !.was_running = TRUE, !.signalled = TRUE]
     IN  IF frame.delete_transient
         THEN /\ dirs' = del.dirs
              /\ files' = del.files
              /\ es_state' = IF del.raised THEN es_state ELSE ClearedState
              /\ es_config' = IF del.raised THEN es_config ELSE ClearedConfig
              /\ last' = IF del.raised THEN raise
                         ELSE [return EXCEPT !.deleted = TRUE]
         ELSE /\ UNCHANGED <<dirs, files>>
              /\ es_state' = ClearedState
              /\ es_config' = ClearedConfig
              /\ last' = return
  /\ pc' = "idle"
  /\ frame' = NoFrame
  /\ UNCHANGED <<pid_files, alive, procs, launches>>
  /\ UNCHANGED side_vars

\* ---------------------------------------------------------------- is_running()

\* is_running(), lines 480-481: the caller gets the answer; nothing else changes.
IsRunningCall ==
  /\ pc = "idle"
  /\ \E n0 \in generate_cluster_name :
       last' = [Call("is_running") EXCEPT !.ret = Is_running(n0)]
  /\ UNCHANGED <<es_state, es_config, pc, frame>>
  /\ UNCHANGED os_vars
  /\ UNCHANGED side_vars

\* __init__(), lines 249-250: the in-memory state of a new controller.
ConstructCtl ==
  /\ es_state' = None
  /\ es_config' = None
  /\ last' = NoCall
  /\ UNCHANGED <<pc, frame>>

\* __init__(), lines 249-250: a new controller (a new command-line invocation)
\* over the same install root: the disk and the processes stay as they are.
Construct ==
  /\ pc = "idle"
  /\ ConstructCtl
  /\ UNCHANGED os_vars
  /\ UNCHANGED side_vars

\* ---------------------------------------------------------------- the server process

\* The launched server writes its PID to the path given with -p.
ServerWritesPid ==
  /\ \E p \in alive :
       /\ ~procs[p].wrote
       /\ pid_files' = [pid_files EXCEPT ![procs[p].pid_path] = Some(p)]
       /\ procs' = [procs EXCEPT ![p].wrote = TRUE]
  /\ UNCHANGED ctl_vars
  /\ UNCHANGED <<dirs, files, alive, launches>>
  /\ UNCHANGED side_vars

\* The launched server writes to its log file (path.log of its configuration).
ServerWritesLog ==
  /\ \E p \in alive :
       LET log_dir == SubDir(procs[p].pid_path.dir, "log")
           log_fn == [dir |-> log_dir, file |-> "cluster.log"]
       IN  /\ log_dir \in dirs
           /\ files[log_fn] # "written"
           /\ files' = [files EXCEPT ![log_fn] = "written"]
  /\ UNCHANGED ctl_vars
  /\ UNCHANGED <<dirs, pid_files, alive, procs, launches>>
  /\ UNCHANGED side_vars

\* The server process exits: on its own or after the termination signal, either
\* cleanly (it removes its PID file) or not (the PID file stays behind).
ServerExits ==
  /\ \E p \in alive, clean \in BOOLEAN :
       /\ alive' = alive \ {p}
       /\ pid_files' = IF clean /\ pid_files[procs[p].pid_path] = Some(p)
                       THEN [pid_files EXCEPT ![procs[p].pid_path] = None]
                       ELSE pid_files
       /\ procs' = [procs EXCEPT ![p] = NoProc]
  /\ UNCHANGED ctl_vars
  /\ UNCHANGED <<dirs, files, launches>>
  /\ UNCHANGED side_vars

\* ---------------------------------------------------------------- wait_for_green()

\* The cluster statuses the health endpoint reports.
Statuses == {"red", "yellow", "green"}

\* wait_for_green(timeout) is called, between two other calls of the controller.
WaitCall ==
  /\ pc = "idle"
  /\ wfg.pc \in {"off", "done"}
  /\ clock <= MaxClock
  /\ \E timeout \in 0..MaxTimeout :
       wfg' = [NoWait EXCEPT !.pc = "ready", !.timeout = timeout,
                             !.started = (es_state # None)]
  /\ UNCHANGED <<clock, endpoint>>
  /\ UNCHANGED ctl_vars
  /\ UNCHANGED os_vars
  /\ UNCHANGED log_vars
  /\ UNCHANGED <<command, es_homes, install_call, conf>>

\* wait_for_green(), lines 509-511: es_state is empty: warn and return.
WaitNotStarted ==
  /\ wfg.pc = "ready"
  /\ es_state = None
  /\ wfg' = [wfg EXCEPT !.pc = "done", !.warned = TRUE]
  /\ UNCHANGED <<clock, endpoint>>
  /\ UNCHANGED ctl_vars
  /\ UNCHANGED os_vars
  /\ UNCHANGED log_vars
  /\ UNCHANGED <<command, es_homes, install_call, conf>>

\* wait_for_green(), line 516: end_time = clock() + timeout (es_state is populated;
\* its port is always the one run() recorded).
WaitStart ==
  /\ wfg.pc = "ready"
  /\ es_state # None
  /\ wfg' = [wfg EXCEPT !.pc = "get", !.end_time = clock + wfg.timeout]
  /\ UNCHANGED <<clock, endpoint>>
  /\ UNCHANGED ctl_vars
  /\ UNCHANGED os_vars
  /\ UNCHANGED log_vars
  /\ UNCHANGED <<command, es_homes, install_call, conf>>

\* wait_for_green(), lines 517-520 and 531-534: the GET is answered and the status
\* of the answer is decoded.
WaitGet ==
  /\ wfg.pc = "get"
  /\ endpoint \in Statuses
  /\ wfg' = [wfg EXCEPT !.pc = "loop", !.status = endpoint]
  /\ UNCHANGED <<clock, endpoint>>
  /\ UNCHANGED ctl_vars
  /\ UNCHANGED os_vars
  /\ UNCHANGED log_vars
  /\ UNCHANGED <<command, es_homes, install_call, conf>>

\* wait_for_green(), lines 517-519 and 531-533: nothing listens on the port:
\* requests.get() raises ConnectionError, which nothing catches.
WaitGetFails ==
  /\ wfg.pc = "get"
  /\ endpoint = "down"
  /\ wfg' = [wfg EXCEPT !.pc = "done", !.raised = TRUE]
  /\ UNCHANGED <<clock, endpoint>>
  /\ UNCHANGED ctl_vars
  /\ UNCHANGED os_vars
  /\ UNCHANGED log_vars
  /\ UNCHANGED <<command, es_homes, install_call, conf>>

\* wait_for_green(), lines 522 and 536: the status is green: return.
WaitGreen ==
  /\ wfg.pc = "loop"
  /\ wfg.status = "green"
  /\ wfg' = [wfg EXCEPT !.pc = "done"]
  /\ UNCHANGED <<clock, endpoint>>
  /\ UNCHANGED ctl_vars
  /\ UNCHANGED os_vars
  /\ UNCHANGED log_vars
  /\ UNCHANGED <<command, es_homes, install_call, conf>>

\* wait_for_green(), lines 523-529: not green and clock() > end_time: log the
\* error and return.
WaitTimeout ==
  /\ wfg.pc = "loop"
  /\ wfg.status # "green"
  /\ clock > wfg.end_time
  /\ wfg' = [wfg EXCEPT !.pc = "done", !.errored = TRUE]
  /\ UNCHANGED <<clock, endpoint>>
  /\ UNCHANGED ctl_vars
  /\ UNCHANGED os_vars
  /\ UNCHANGED log_vars
  /\ UNCHANGED <<command, es_homes, install_call, conf>>

\* wait_for_green(), lines 522-531: not green, not timed out: poll again at once.
WaitRetry ==
  /\ wfg.pc = "loop"
  /\ wfg.status # "green"
  /\ ~(clock > wfg.end_time)
  /\ wfg' = [wfg EXCEPT !.pc = "get"]
  /\ UNCHANGED <<clock, endpoint>>
  /\ UNCHANGED ctl_vars
  /\ UNCHANGED os_vars
  /\ UNCHANGED log_vars
  /\ UNCHANGED <<command, es_homes, install_call, conf>>

\* Time passes: up to the last reading, and in any case until a wait_for_green
\* in progress has seen its end_time pass.
ClockTick ==
  /\ clock < MaxClock \/ (wfg.pc \in {"get", "loop"} /\ clock <= wfg.end_time)
  /\ clock' = clock + 1
  /\ UNCHANGED <<wfg, endpoint>>
  /\ UNCHANGED ctl_vars
  /\ UNCHANGED os_vars
  /\ UNCHANGED log_vars
  /\ UNCHANGED <<command, es_homes, install_call, conf>>

\* The REST endpoint comes up, goes down, or changes its cluster status.
EndpointChanges ==
  /\ \E e \in Statuses \cup {"down"} :
       /\ e # endpoint
       /\ endpoint' = e
  /\ UNCHANGED <<wfg, clock>>
  /\ UNCHANGED ctl_vars
  /\ UNCHANGED os_vars
  /\ UNCHANGED log_vars
  /\ UNCHANGED <<command, es_homes, install_call, conf>>

\* The steps of one wait_for_green call.
WaitStep ==
  WaitNotStarted \/ WaitStart \/ WaitGet \/ WaitGetFails \/ WaitGreen \/ WaitTimeout
    \/ WaitRetry

\* The first run() of a controller, while no wait_for_green is in progress.
FirstRun ==
  /\ wfg.pc \in {"off", "done"}
  /\ launches = 0
  /\ RunLaunch

NextGreen ==
  \/ FirstRun
  \/ RunReturn
  \/ ServerWritesPid
  \/ WaitCall
  \/ WaitStep
  \/ ClockTick
  \/ EndpointChanges

\* ---------------------------------------------------------------- configuration

\* The cluster names and paths a config document is rendered for.
ConfNames == {"ba", "es_a", "true", "123"}
ConfPaths == {"/es/data", "/es/log"}
OptPaths == {None} \cup {Some(p) : p \in ConfPaths}

\* c = generate_config(cluster_name, data_path, log_path).
ConfGenerate ==
  /\ conf.pc = "args"
  /\ conf' = [conf EXCEPT
                !.pc = "generated",
                !.config = Some(generate_config(conf.cluster_name, conf.data_path,
                                                conf.log_path))]
  /\ UNCHANGED ctl_vars
  /\ UNCHANGED os_vars
  /\ UNCHANGED log_vars
  /\ UNCHANGED <<command, es_homes, install_call, wfg, clock, endpoint>>

\* serialize_config(s, c).
ConfSerialize ==
  /\ conf.pc = "generated"
  /\ conf' = [conf EXCEPT !.pc = "serialized", !.text = serialize_config(conf.config[1])]
  /\ UNCHANGED ctl_vars
  /\ UNCHANGED os_vars
  /\ UNCHANGED log_vars
  /\ UNCHANGED <<command, es_homes, install_call, wfg, clock, endpoint>>

\* yaml.load(s).
ConfLoad ==
  /\ conf.pc = "serialized"
  /\ conf' = [conf EXCEPT !.pc = "loaded", !.parsed = Load(conf.text)]
  /\ UNCHANGED ctl_vars
  /\ UNCHANGED os_vars
  /\ UNCHANGED log_vars
  /\ UNCHANGED <<command, es_homes, install_call, wfg, clock, endpoint>>

\* A document is to be rendered for some cluster name and optional paths.
InitConf ==
  /\ InitCtl
  /\ InitOs
  /\ InitLogOff
  /\ command = "none"
  /\ es_homes = [v \in Versions |-> NoHome]
  /\ install_call = NoInstall
  /\ wfg = NoWait
  /\ clock = 0
  /\ endpoint = "down"
  /\ \E c \in ConfNames, d \in OptPaths, l \in OptPaths :
       conf = [NoConf EXCEPT !.pc = "args", !.cluster_name = c, !.data_path = d,
                             !.log_path = l]

NextConf == ConfGenerate \/ ConfSerialize \/ ConfLoad

\* ---------------------------------------------------------------- __main__.main

\* The choices of the command argument.
Commands == {"start", "stop", "terminate"}

\* Mutant of MainDeleteTransient: both commands delete.
MainDeleteTransient_Always(cmd) == TRUE

\* main(), line 20: delete_transient = ("terminate" == command).
MainDeleteTransient(cmd) == cmd = "terminate"

\* main(), lines 14-16: an invocation with some command and the default version:
\* a controller is constructed over the working directory and install() returns.
MainInstall ==
  /\ pc = "idle"
  /\ command = "none"
  /\ \E cmd \in Commands : command' = cmd
  /\ ConstructCtl
  /\ InstallReturns(ES_DEFAULT_VERSION)
  /\ UNCHANGED os_vars
  /\ UNCHANGED log_vars
  /\ UNCHANGED <<wfg, clock, endpoint, conf>>

\* main(), lines 14-16: install() raises and the invocation ends there.
MainInstallFails ==
  /\ pc = "idle"
  /\ command = "none"
  /\ ConstructCtl
  /\ InstallRaises(ES_DEFAULT_VERSION)
  /\ UNCHANGED command
  /\ UNCHANGED os_vars
  /\ UNCHANGED log_vars
  /\ UNCHANGED <<wfg, clock, endpoint, conf>>

\* main(), line 17: runner.run() on the new controller.
MainRun ==
  /\ command \in Commands
  /\ last.op = "none"
  /\ RunMkdirFails \/ RunWarm \/ RunLaunch

\* main(), lines 19-20: runner.stop(delete_transient="terminate" == command).
MainStop ==
  /\ command \in {"stop", "terminate"}
  /\ last.op = "run" /\ last.ret
  /\ \/ StopBegin /\ frame'.delete_transient = MainDeleteTransient(command)
     \/ StopNotRunning /\ last'.delete_transient = MainDeleteTransient(command)

\* main() is left: after run() for start, after stop() for stop and terminate,
\* or by the exception of run() or stop().
MainExit ==
  /\ pc = "idle"
  /\ command \in Commands
  /\ \/ last.raised
     \/ last.op = "stop"
     \/ last.op = "run" /\ command = "start"
  /\ command' = "none"
  /\ UNCHANGED ctl_vars
  /\ UNCHANGED os_vars
  /\ UNCHANGED log_vars
  /\ UNCHANGED <<es_homes, install_call, wfg, clock, endpoint, conf>>

NextMain ==
  \/ MainInstall
  \/ MainInstallFails
  \/ MainRun
  \/ RunReturn
  \/ MainStop
  \/ StopSignal
  \/ StopNoSuchProcess
  \/ StopReturn
  \/ MainExit
  \/ ServerWritesPid
  \/ ServerWritesLog
  \/ ServerExits

\* ---------------------------------------------------------------- specification

Next ==
  \/ RunNoop
  \/ RunMkdirFails
  \/ RunWarm
  \/ RunLaunch
  \/ RunReturn
  \/ StopBegin
  \/ StopNotRunning
  \/ StopSignal
  \/ StopNoSuchProcess
  \/ StopReturn
  \/ IsRunningCall
  \/ Construct
  \/ ServerWritesPid
  \/ ServerWritesLog
  \/ ServerExits

Spec == Init /\ [][Next]_vars

\* The calls on one controller: no other controller is constructed.
NextOne ==
  \/ RunNoop
  \/ RunMkdirFails
  \/ RunWarm
  \/ RunLaunch
  \/ RunReturn
  \/ StopBegin
  \/ StopNotRunning
  \/ StopSignal
  \/ StopNoSuchProcess
  \/ StopReturn
  \/ IsRunningCall
  \/ ServerWritesPid
  \/ ServerWritesLog
  \/ ServerExits

SpecOne == Init /\ [][NextOne]_vars

\* install() calls, by controllers of any version, on one install root.
SpecInstall == Init /\ [][NextInstall]_vars

\* Command-line invocations, one after the other, in one working directory.
SpecMain == Init /\ [][NextMain]_vars

\* One config document rendered, serialized and parsed back.
SpecConf == InitConf /\ [][NextConf]_vars

\* wait_for_green calls on a controller before and after its first run(). The
\* call is sequential code and keeps running until it ends; the clock advances.
SpecGreen ==
  Init /\ [][NextGreen]_vars /\ WF_vars(WaitStep) /\ WF_vars(ClockTick)

\* ---------------------------------------------------------------- parse_es_log_header

\* A log line is a sequence of tokens: words, blanks, and the markers the three
\* regular expressions look for.
Tok(k, n) == [k |-> k, n |-> n]
Space == Tok("space", 0)
PidTok(n) == Tok("pid[", n)             \* pid[n]
PortTok(n) == Tok(":", n)               \* host:n
Http == Tok("http", 0)
HttpUpper == Tok("HTTP", 0)
PublishAddress == Tok("publish_address", 0)
Started == Tok("started", 0)

\* The lines a log stream is made of (a blank line is also what readline()
\* gives at the end of the stream).
LogLines ==
  { <<Space>>,
    <<PidTok(4321)>>,
    <<Space, PidTok(77), PidTok(4321)>>,
    <<Http, PublishAddress, PortTok(9301)>>,
    <<HttpUpper, PublishAddress, PortTok(9302), PortTok(9301), Space>>,
    <<PublishAddress, PortTok(9301)>>,
    <<Started>>,
    <<PidTok(77), Started>> }

Streams == UNION {[1..k -> LogLines] : k \in 0..MaxLines}

\* str.strip(): leading and trailing whitespace removed.
Strip(line) ==
  LET keep == {i \in 1..Len(line) : line[i] # Space}
  IN  IF keep = {} THEN <<>>
      ELSE LET lo == CHOOSE i \in keep : \A j \in keep : i <= j
               hi == CHOOSE i \in keep : \A j \in keep : j <= i
           IN  SubSeq(line, lo, hi)

\* str.lower().
Lower(line) == [i \in 1..Len(line) |-> IF line[i] = HttpUpper THEN Http ELSE line[i]]

\* re.search("pid\[(\d+)\]", line): the first pid[n] of the line.
SearchPid(line) ==
  LET at == {i \in 1..Len(line) : line[i].k = "pid["}
  IN  IF at = {} THEN None
      ELSE Some(line[CHOOSE i \in at : \A j \in at : i <= j].n)

\* re.search(r"http.*publish_address.*:(\d+)", line.lower()): the last :n of a line
\* that has http, then publish_address, then some :n.
SearchPort(line) ==
  LET low == Lower(line)
      at == {k \in 1..Len(low) :
               /\ low[k].k = ":"
               /\ \E i \in 1..Len(low), j \in 1..Len(low) :
                    i < j /\ j < k /\ low[i] = Http /\ low[j] = PublishAddress}
  IN  IF at = {} THEN None
      ELSE Some(low[CHOOSE k \in at : \A j \in at : j <= k].n)

\* re.search(r".*started.*", line).
SearchStarted(line) == \E i \in 1..Len(line) : line[i] = Started

\* log_file.readline(): the next line, the empty string at end of stream.
Readline == IF log_pos < Len(log_stream) THEN log_stream[log_pos + 1] ELSE <<>>
ReadlinePos == IF log_pos < Len(log_stream) THEN log_pos + 1 ELSE log_pos

\* parse_es_log_header(), line 169: while count < limit.
LoopContinues == scan.count < scan.limit

\* Mutant of CountLine: a blank line is retried without being counted.
CountLine_SkipBlank(count, line) == IF Strip(line) = <<>> THEN count ELSE count + 1

\* parse_es_log_header(), line 170: count += 1.
CountLine(count, line) == count + 1

\* Mutant of PortMatch: the line is matched as it is, not lower-cased.
PortMatch_CaseSensitive(line) ==
  IF \E i \in 1..Len(line) : line[i] = HttpUpper THEN None ELSE SearchPort(line)

\* parse_es_log_header(), lines 180-182: the port match on the stripped line.
PortMatch(line) == SearchPort(line)

\* parse_es_log_header(), lines 164-167: the first readline() and the locals.
ScanStart ==
  /\ scan.pc = "ready"
  /\ scan' = [scan EXCEPT !.pc = "loop", !.line = Readline, !.server_pid = None,
                          !.es_port = DefaultPort, !.count = 0]
  /\ log_pos' = ReadlinePos
  /\ UNCHANGED log_stream
  /\ UNCHANGED ctl_vars
  /\ UNCHANGED os_vars
  /\ UNCHANGED tool_vars

\* parse_es_log_header(), lines 169-188: one iteration of the loop: the line is
\* counted, stripped and matched; a started line returns, else the next is read.
ScanLine ==
  /\ scan.pc = "loop"
  /\ LoopContinues
  /\ LET line == Strip(scan.line)
         pid == IF SearchPid(line) # None THEN SearchPid(line) ELSE scan.server_pid
         port == IF PortMatch(line) # None THEN PortMatch(line)[1] ELSE scan.es_port
         seen == [scan EXCEPT !.count = CountLine(scan.count, scan.line),
                              !.line = line, !.server_pid = pid, !.es_port = port]
     IN  IF SearchStarted(line)
         THEN /\ scan' = [seen EXCEPT !.pc = "done"]
              /\ UNCHANGED log_pos
         ELSE /\ scan' = [seen EXCEPT !.line = Readline]
              /\ log_pos' = ReadlinePos
  /\ UNCHANGED log_stream
  /\ UNCHANGED ctl_vars
  /\ UNCHANGED os_vars
  /\ UNCHANGED tool_vars

\* parse_es_log_header(), lines 190-195: the ceiling is reached: warn and return
\* what was captured.
ScanGiveUp ==
  /\ scan.pc = "loop"
  /\ ~LoopContinues
  /\ scan' = [scan EXCEPT !.pc = "done", !.warned = TRUE]
  /\ UNCHANGED <<log_stream, log_pos>>
  /\ UNCHANGED ctl_vars
  /\ UNCHANGED os_vars
  /\ UNCHANGED tool_vars

\* A call parse_es_log_header(log_file, limit) on a log reader at its start.
InitLog ==
  /\ InitCtl
  /\ InitOs
  /\ InitTools
  /\ log_stream \in Streams
  /\ log_pos = 0
  /\ \E limit \in 0..MaxLimit : scan = [NoScan EXCEPT !.pc = "ready", !.limit = limit]

NextLog == ScanStart \/ ScanLine \/ ScanGiveUp

\* The scanner is sequential code: it keeps running until it returns.
SpecLog == InitLog /\ [][NextLog]_vars /\ WF_vars(NextLog)

\* ---------------------------------------------------------------- claims

\* The cluster name of the run that recorded the ElasticsearchState st.
ClusterOf(st) == st.config_fn.dir.dir.cluster

\* The transient data of cluster n: data directory, log directory, config file.
TransientPresent(n) ==
  DataDir(n) \in dirs /\ LogDir(n) \in dirs /\ files[ConfigFn(n)] # "absent"
TransientAbsent(n) ==
  DataDir(n) \notin dirs /\ LogDir(n) \notin dirs /\ files[ConfigFn(n)] = "absent"

\* is_running() would return false, whatever name the generator returns.
NotRunning == \A n \in generate_cluster_name : ~Is_running(n)

C2_StopDeletesTransient ==
  (pc = "idle" /\ last.op = "stop" /\ last.ret /\ last.pre_state # None)
    => IF last.delete_transient
       THEN TransientAbsent(ClusterOf(last.pre_state[1]))
       ELSE TransientPresent(ClusterOf(last.pre_state[1]))

\* C3: once stop() has returned and until run() is called again, is_running()
\* returns false.
C3_NotRunningAfterStop ==
  (pc = "idle" /\ last.stopped) => NotRunning

C3_Witness ==
  /\ pc = "idle" /\ last.op = "is_running" /\ last.stopped /\ ~last.ret
  /\ alive # {}

\* C4: stop() on a controller on which run() was never called returns without
\* raising, without a termination signal and without deleting anything, and
\* every stop() that returns leaves es_state and es_config empty.
C4_StopClearsState ==
  /\ (pc \in {"stop_signal", "stop_wait"}) => last.ran
  /\ (pc = "idle" /\ last.op = "stop") =>
       /\ last.ret => (es_state = None /\ es_config = None)
       /\ ~last.ran => (last.ret /\ ~last.raised /\ ~last.signalled /\ ~last.deleted)

C4_Witness ==
  /\ pc = "idle" /\ last.op = "stop" /\ ~last.ran /\ last.ret
  /\ es_state = None /\ es_config = None /\ alive # {}

C4_WitnessRunning ==
  /\ pc = "idle" /\ last.op = "stop" /\ last.ran /\ last.ret /\ last.signalled

\* C5 (as stated): es_state is non-empty iff some run() since the last stop()
\* (or since construction) completed with a discovered server PID.
C5_StateIffDiscovered ==
  (es_state # None) <=> last.discovered

\* C5 (amended): es_state is non-empty iff some run() since the last stop() that
\* returned (or since construction) got past its already-running check and
\* completed, with or without a discovered server PID.
C5_StateIffRecorded ==
  (es_state # None) <=> last.recorded

C5_Witness ==
  /\ es_state # None /\ es_state[1].server_pid = None /\ last.recorded
  /\ ~last.discovered

\* A step in which run() returns without having launched, on the strength of the
\* PID file alone.
WarmReturn ==
  /\ pc = "idle" /\ last'.op = "run" /\ last'.ret /\ ~last'.launched
  /\ ~last'.was_running /\ last' # last

\* C6: run() skips the launch on the strength of a PID file only when the process
\* the file names is alive.
C6_WarmOnlyIfAlive ==
  [][WarmReturn => (last'.found # None /\ last'.found[1] \in alive)]_vars

\* C7: when the launched server has not written its PID file by the end of the
\* settling interval, run() returns without raising, with es_state non-empty,
\* server PID absent, port 9200 and the config path set, and is_running() is false.
C7_LaunchTimeout ==
  (pc = "idle" /\ last.op = "run" /\ last.launched /\ last.found = None)
    => /\ last.ret /\ ~last.raised
       /\ es_state # None
       /\ es_state[1].server_pid = None
       /\ es_state[1].port = DefaultPort
       /\ es_config # None
       /\ es_state[1].config_fn = ConfigFn(es_config[1].cluster.name)
       /\ files[es_state[1].config_fn] = "written"
       /\ NotRunning

C7_Witness ==
  /\ pc = "idle" /\ last.op = "run" /\ last.launched /\ last.found = None
  /\ es_state # None /\ alive # {}

\* A step that is one is_running() call.
IsRunningStep == pc = "idle" /\ last'.op = "is_running" /\ last' # last

\* The PID is_running() should go by: the one in memory, else the one in the PID
\* file of the run es_state records, else (nothing in memory) the one in the PID
\* file of any cluster name.
KnownPids ==
  IF es_state # None /\ es_state[1].server_pid # None
  THEN {es_state[1].server_pid}
  ELSE {WarmPid(n) : n \in (IF es_state # None THEN {ClusterOf(es_state[1])}
                            ELSE generate_cluster_name)} \ {None}

\* C8: is_running() changes neither es_state, es_config nor the disk, and returns
\* true exactly when a known PID (in memory, else from the PID file) names a live
\* process.
C8_IsRunningPure ==
  [][IsRunningStep =>
       /\ UNCHANGED <<es_state, es_config, dirs, files, pid_files>>
       /\ last'.ret <=> (\E k \in KnownPids : process_exists(k[1]))]_vars


\* The i-th line the scanner examines: stripped, empty past the end of the stream.
LineAt(i) == IF i <= Len(log_stream) THEN Strip(log_stream[i]) ELSE <<>>

\* The last of the lines 1..k for which Match gives a value, 0 if there is none.
LastMatch(Match(_), k) ==
  LET at == {i \in 1..k : Match(LineAt(i)) # None}
  IN  IF at = {} THEN 0 ELSE CHOOSE i \in at : \A j \in at : j <= i

\* The first line within the ceiling that contains "started", 0 if there is none.
FirstStarted ==
  LET at == {i \in 1..scan.limit : SearchStarted(LineAt(i))}
  IN  IF at = {} THEN 0 ELSE CHOOSE i \in at : \A j \in at : i <= j

\* A line of the form "publish_address <host>:P", with or without http before it.
PublishPort(line) ==
  LET at == {k \in 1..Len(line) :
               line[k].k = ":" /\ \E j \in 1..(k - 1) : line[j] = PublishAddress}
  IN  IF at = {} THEN None ELSE Some(line[CHOOSE k \in at : \A j \in at : j <= k].n)

\* A line of the form "http ... publish_address <host>:P", in any letter case.
HttpPublishPort(line) ==
  IF \E i \in 1..Len(line) : line[i] \in {Http, HttpUpper} /\
       \E j \in (i + 1)..Len(line) : line[j] = PublishAddress /\
         \E k \in (j + 1)..Len(line) : line[k].k = ":"
  THEN PublishPort(line) ELSE None

\* The scanner has returned (pid, port) for a stream whose markers are, in this
\* order and within the ceiling, a pid line, a PortLine line and the first
\* started line, each the last of its kind up to the started line.
ReturnsMarkers(PortLine(_)) ==
  LET k == FirstStarted
      i == LastMatch(SearchPid, k)
      j == LastMatch(PortLine, k)
  IN  (scan.pc = "done" /\ 0 < i /\ i < j /\ j < k)
        => /\ scan.server_pid = SearchPid(LineAt(i))
           /\ Some(scan.es_port) = PortLine(LineAt(j))

\* C9 (as stated): a stream with a pid[N] line, then a line of the form
\* "publish_address <host>:P", then a line containing "started", all within the
\* ceiling, makes parse_es_log_header return (N, P).
C9_ReturnsPidAndPort == ReturnsMarkers(PublishPort)

\* C9 (amended): a stream with a pid[N] line, then a line of the form
\* "http ... publish_address <host>:P" (http before publish_address, in any
\* letter case), then a line containing "started", all within the ceiling,
\* makes parse_es_log_header return (N, P).
C9_ReturnsPidAndHttpPort == ReturnsMarkers(HttpPublishPort)

C9_Witness ==
  /\ scan.pc = "done"
  /\ log_stream = << <<PidTok(4321)>>,
                     <<HttpUpper, PublishAddress, PortTok(9302), PortTok(9301), Space>>,
                     <<Started>> >>
  /\ scan.limit = 3
  /\ scan.server_pid = Some(4321) /\ scan.es_port = 9301

\* What the scanner has captured after examining the first k lines.
CapturedPid(k) ==
  IF LastMatch(SearchPid, k) = 0 THEN None
  ELSE SearchPid(LineAt(LastMatch(SearchPid, k)))
CapturedPort(k) ==
  IF LastMatch(HttpPublishPort, k) = 0 THEN DefaultPort
  ELSE HttpPublishPort(LineAt(LastMatch(HttpPublishPort, k)))[1]

C10_Bounded ==
  /\ scan.count <= scan.limit
  /\ log_pos <= scan.count + 1
  /\ scan.pc = "done" =>
       /\ scan.server_pid = CapturedPid(scan.count)
       /\ scan.es_port = CapturedPort(scan.count)
       /\ scan.warned => scan.count = scan.limit

\* The iterations the scanner may still make before it returns.
ScanMeasure ==
  CASE scan.pc = "done" -> 0
    [] scan.pc = "loop" -> scan.limit - scan.count + 1
    [] OTHER -> scan.limit + 2

\* C10: for every stream (blank lines and end of stream included) and every
\* ceiling limit >= 0, parse_es_log_header returns, after examining at most limit
\* lines, the values captured so far: port 9200 when no port line was matched,
\* no PID when no pid line was matched. Until it has returned the scanner can
\* always take a step, and every step brings the return nearer.
C10_TerminatesWithinLimit ==
  /\ [](C10_Bounded /\ ScanMeasure >= 0)
  /\ [](scan.pc # "done" => ENABLED <<NextLog>>_vars)
  /\ [][ScanMeasure' < ScanMeasure]_vars

C10_Witness ==
  /\ scan.pc = "done" /\ scan.warned
  /\ log_stream = << <<Space>>, <<Space>> >>
  /\ scan.limit = 3 /\ scan.count = 3
  /\ scan.server_pid = None /\ scan.es_port = DefaultPort

\* A step that is an install() call which returns, when the install() call
\* before it was for the same version and returned as well.
SecondInstallStep ==
  /\ install_call'.parity # install_call.parity
  /\ install_call'.ret /\ install_call'.again

\* C11: on one install root, the archive of a version is extracted at most once,
\* and exactly once if its version folder exists; the second of two install()
\* calls in sequence for the same version extracts nothing (the folder is
\* there) and still copies the baseline configuration over the config file.
C11_SecondInstallExtractsNothing ==
  /\ [](\A v \in Versions :
          /\ es_homes[v].extracts <= 1
          /\ es_homes[v].home <=> es_homes[v].extracts = 1)
  /\ [][SecondInstallStep =>
          LET v == install_call'.version
          IN  /\ es_homes[v].home
              /\ es_homes'[v].extracts = es_homes[v].extracts
              /\ ~install_call'.extracted
              /\ install_call'.copied
              /\ install_call'.replaced = es_homes[v].config
              /\ es_homes'[v].config = "embedded"]_vars

C11_Witness ==
  /\ install_call.op = "install" /\ install_call.ret /\ install_call.again
  /\ ~install_call.extracted /\ install_call.replaced = "edited"
  /\ es_homes[install_call.version].extracts = 1
  /\ es_homes[install_call.version].config = "embedded"

\* C12: a wait_for_green call on a controller whose es_state is populated ends
\* only by returning, with the status green or after the timeout has elapsed
\* (the error logged); it never ends by an exception.
C12_ReturnsOnGreenOrTimeout ==
  (wfg.pc = "done" /\ wfg.started)
    => /\ ~wfg.raised
       /\ wfg.status = "green" \/ (wfg.errored /\ clock > wfg.end_time)

C13_StopKeepsTerminateDeletes ==
  (pc = "idle" /\ command \in {"stop", "terminate"} /\ last.op = "stop"
     /\ last.ret /\ last.signalled)
    => IF command = "terminate"
       THEN TransientAbsent(ClusterOf(last.pre_state[1]))
       ELSE TransientPresent(ClusterOf(last.pre_state[1]))

C13_Witness ==
  /\ pc = "idle" /\ command = "terminate" /\ last.op = "stop" /\ last.ret
  /\ last.signalled /\ last.deleted
  /\ TransientAbsent(ClusterOf(last.pre_state[1]))
  /\ launches = 2

\* C15: for every cluster name, the PID file that is_running() and stop() look up
\* when in-memory state is empty is the PID file run() computed for that name
\* and passed with -p to the server it launched, and both read the same PID.
C15_LookupReadsRunPidFile ==
  \A n \in generate_cluster_name :
    /\ \A p \in alive :
         procs[p].pid_path = Get_pid_file(RunClusterPath(n))
           => Get_pid_file(LookupClusterPath(n)) = procs[p].pid_path
    /\ Pid_from_file(n) = WarmPid(n)

\* C16: a stop() that found the server running and whose server had exited by
\* the time of the termination signal returns without raising and leaves
\* es_state and es_config empty.
C16_StopSurvivesExit ==
  (pc = "idle" /\ last.op = "stop" /\ last.was_running /\ ~last.signalled)
    => (last.ret /\ ~last.raised /\ es_state = None /\ es_config = None)

\* A step that removes a directory or a file from disk.
DeletesStep ==
  \/ \E d \in dirs : d \notin dirs'
  \/ \E f \in FilePaths : files[f] # "absent" /\ files'[f] = "absent"

\* C17: in stop() on a running server the termination signal is sent to a live
\* process, stop() then waits, and only when the process has exited are the
\* transient directories and the config file deleted and in-memory state
\* cleared; nothing is deleted while the signalled process is alive.
C17_SignalWaitThenDelete ==
  [][/\ (pc' = "stop_wait" /\ pc # "stop_wait")
          => (pc = "stop_signal" /\ process_exists(frame.pid[1]))
     /\ (DeletesStep \/ (pc \in {"stop_signal", "stop_wait"} /\ es_state' # es_state))
          => /\ pc = "stop_wait"
             /\ ~process_exists(frame.pid[1])
             /\ last'.op = "stop" /\ last'.signalled]_vars

C17_Witness ==
  /\ pc = "idle" /\ last.op = "stop" /\ last.ret /\ last.signalled /\ last.deleted
  /\ es_state = None /\ es_config = None
  /\ TransientAbsent(ClusterOf(last.pre_state[1]))
  /\ alive = {}

\* A step in which run() gets past its already-running check and its directory
\* creation, up to the launch or the recovery of a PID.
RunDecisionStep ==
  /\ pc = "idle"
  /\ \/ pc' = "run_sleep"
     \/ /\ last'.op = "run" /\ last'.ret /\ ~last'.was_running /\ ~last'.launched
        /\ last' # last

\* C18: every run() that gets past the already-running check leaves the log file
\* of the run existing and empty when it launches the server or recovers a PID.
C18_LogFileFresh ==
  [][RunDecisionStep => files'[LogFn(es_config'[1].cluster.name)] = "empty"]_vars

\* A step that is a run() call entered while is_running() holds.
RunWhileRunningStep ==
  /\ pc = "idle"
  /\ \E n \in generate_cluster_name : Is_running(n)
  /\ pc' = "run_sleep" \/ (last'.op = "run" /\ last' # last)

\* C19: a run() entered while is_running() holds returns at once and changes
\* neither es_state, es_config, the directories, the files, the PID files nor
\* the processes: nothing is created, written or launched.
C19_RunWhileRunningChangesNothing ==
  [][RunWhileRunningStep =>
       /\ last'.ret /\ ~last'.raised /\ ~last'.launched
       /\ UNCHANGED <<es_state, es_config, pc, frame>>
       /\ UNCHANGED os_vars]_vars

C19_Witness ==
  /\ pc = "idle" /\ last.op = "run" /\ last.ret /\ last.was_running
  /\ ~last.after_run /\ es_state = last.pre_state
  /\ es_state # None /\ alive # {} /\ launches = 1

\* C20: es_state non-empty implies es_config non-empty in every state, and while
\* stop() is in its server-is-running branch both are non-empty.
C20_StateImpliesConfig ==
  /\ es_state # None => es_config # None
  /\ pc \in {"stop_signal", "stop_wait"} => (es_state # None /\ es_config # None)

C20_Witness ==
  /\ pc = "stop_wait" /\ frame.delete_transient
  /\ es_state # None /\ es_config # None
  /\ launches = 2

\* C21: across the run() and stop() calls on one controller, at most one server
\* process it launched is alive at any time, and outside the settling sleep of
\* run() every live one is the process whose PID es_state records.
C21_OneTrackedServer ==
  /\ Cardinality(alive) <= 1
  /\ pc # "run_sleep" =>
       \A p \in alive : es_state # None /\ es_state[1].server_pid = Some(p)

====
